---- MODULE Spec2Model ----
(***************************************************************************)
(* Model of gcal.py: the request adapter _request, the uniform result     *)
(* GCalResult, and the 31 tool functions that call the adapter.           *)
(*                                                                         *)
(* Python values are tagged records, so that None, a str, a bool, an int,  *)
(* a dict and a list stay distinct (None is not "", True is not "True").   *)
(* A dict is the sequence of its <<key, value>> entries in insertion       *)
(* order, keys unique, as a Python dict iterates.  A str is a TLA+ string. *)
(***************************************************************************)
EXTENDS Integers, Sequences, FiniteSets, TLC

VARIABLES pc, call, dispatched, response, result, gcal

vars == <<pc, call, dispatched, response, result, gcal>>

-----------------------------------------------------------------------------
(* Python values *)

None == [t |-> "None"]
Str(s) == [t |-> "str", s |-> s]
Bool(b) == [t |-> "bool", b |-> b]
PyInt(n) == [t |-> "int", n |-> n]
Dict(d) == [t |-> "dict", d |-> d]
List(l) == [t |-> "list", l |-> l]

\* bool(v): the truth value Python's `if v:` tests.
Truthy(v) ==
  CASE v.t = "None" -> FALSE
    [] v.t = "str" -> v.s # ""
    [] v.t = "bool" -> v.b
    [] v.t = "int" -> v.n # 0
    [] v.t = "dict" -> v.d # <<>>
    [] v.t = "list" -> v.l # <<>>

RECURSIVE Concat(_)
Concat(ss) == IF ss = <<>> THEN "" ELSE Head(ss) \o Concat(Tail(ss))

RECURSIVE Join(_, _)
Join(sep, ss) ==
  IF ss = <<>> THEN ""
  ELSE IF Len(ss) = 1 THEN ss[1]
  ELSE ss[1] \o sep \o Join(sep, Tail(ss))

\* The printable ASCII characters in code order: 0x20 .. 0x5F and 0x61 .. 0x7E
\* (0x60, the backquote, cannot be written in a TLA+ string and is left out).
PrintableLo == " !\"#$%&'()*+,-./0123456789:;<=>?@ABCDEFGHIJKLMNOPQRSTUVWXYZ[\\]^_"
PrintableHi == "abcdefghijklmnopqrstuvwxyz{|}~"

Ord(c) ==
  IF \E i \in 1..Len(PrintableLo) : SubSeq(PrintableLo, i, i) = c
  THEN 31 + CHOOSE i \in 1..Len(PrintableLo) : SubSeq(PrintableLo, i, i) = c
  ELSE 96 + CHOOSE i \in 1..Len(PrintableHi) : SubSeq(PrintableHi, i, i) = c
Chr(n) == IF n < 96 THEN SubSeq(PrintableLo, n - 31, n - 31) ELSE SubSeq(PrintableHi, n - 96, n - 96)

HexDigits == "0123456789ABCDEF"
Hex2(n) == SubSeq(HexDigits, (n \div 16) + 1, (n \div 16) + 1) \o SubSeq(HexDigits, (n % 16) + 1, (n % 16) + 1)

UpperCase == {"A", "B", "C", "D", "E", "F", "G", "H", "I", "J", "K", "L", "M", "N", "O", "P", "Q", "R", "S", "T", "U", "V", "W", "X", "Y", "Z"}
LowerCase == {"a", "b", "c", "d", "e", "f", "g", "h", "i", "j", "k", "l", "m", "n", "o", "p", "q", "r", "s", "t", "u", "v", "w", "x", "y", "z"}
Digits == {"0", "1", "2", "3", "4", "5", "6", "7", "8", "9"}

\* str.lower()
Lower(s) == Concat([i \in 1..Len(s) |-> LET c == SubSeq(s, i, i) IN IF c \in UpperCase THEN Chr(Ord(c) + 32) ELSE c])

\* str(n) of an int
RECURSIVE NatStr(_)
NatStr(n) == IF n < 10 THEN SubSeq(HexDigits, n + 1, n + 1) ELSE NatStr(n \div 10) \o SubSeq(HexDigits, (n % 10) + 1, (n % 10) + 1)
IntStr(n) == IF n < 0 THEN "-" \o NatStr(-n) ELSE NatStr(n)

\* str(v) of a scalar, as urlencode applies it to every key and value.
PyStr(v) ==
  CASE v.t = "str" -> v.s
    [] v.t = "bool" -> IF v.b THEN "True" ELSE "False"
    [] v.t = "int" -> IntStr(v.n)
    [] v.t = "None" -> "None"

\* urllib.parse.quote_plus: letters, digits and _.-~ are kept, a space
\* becomes "+", every other character is %XX of its code (upper-case hex).
QuoteSafe == UpperCase \cup LowerCase \cup Digits \cup {"_", ".", "-", "~"}
quote_plus(s) == Concat([i \in 1..Len(s) |-> LET c == SubSeq(s, i, i) IN IF c \in QuoteSafe THEN c ELSE IF c = " " THEN "+" ELSE "%" \o Hex2(Ord(c))])

\* urllib.parse.urlencode of a dict: k=v pairs, each side quoted, joined by &.
urlencode(d) == Join("&", [i \in 1..Len(d) |-> quote_plus(d[i][1]) \o "=" \o quote_plus(PyStr(d[i][2]))])

\* d[k] = v on a dict: replaces the value of an existing key in place,
\* appends a new key at the end.
DictSet(d, k, v) ==
  IF \E i \in 1..Len(d) : d[i][1] = k
  THEN [i \in 1..Len(d) |-> IF d[i][1] = k THEN <<k, v>> ELSE d[i]]
  ELSE Append(d, <<k, v>>)

\* `if cond: d[k] = v`
SetIf(cond, d, k, v) == IF cond THEN DictSet(d, k, v) ELSE d

Keys(d) == {d[i][1] : i \in 1..Len(d)}

-----------------------------------------------------------------------------
(* The connection, the result type and the request adapter *)

\* gcal = Connection(...): the static connection configuration.
Connection == [name |-> "gcal-mcp", secrets |-> [token |-> "GCAL_ACCESS_TOKEN"], base_url |-> "https://www.googleapis.com/calendar/v3", auth_header_format |-> "Bearer {api_key}"]

\* GCalResult(success=..., data=..., error=...); data and error default to None.
GCalResult(success, data, error) == [success |-> success, data |-> data, error |-> error]

\* HttpRequest(method=method, path=path, body=body)
HttpRequest(method, path, body) == [method |-> method, path |-> path, body |-> body]

\* Mutant of RequestPath: the None entries are not removed before encoding.
RequestPathUnfiltered(path, params) ==
  IF Truthy(params)
  THEN LET query_string == urlencode(params.d)
       IN IF query_string # "" THEN path \o "?" \o query_string ELSE path
  ELSE path

\* _request up to the construction of the request: the query string is built
\* from the entries whose value is not None and appended when it is not empty.
RequestPath(path, params) ==
  IF Truthy(params)
  THEN LET query_string == urlencode(SelectSeq(params.d, LAMBDA e : e[2] # None))
       IN IF query_string # "" THEN path \o "?" \o query_string ELSE path
  ELSE path

_request(method, path, params, body) == HttpRequest(method, RequestPath(path, params), body)

\* Mutant of Dispatch: the request is dispatched a second time (a retry).
DispatchWithRetry(log, request) == Append(Append(log, [connection |-> "gcal-mcp", request |-> request]), [connection |-> "gcal-mcp", request |-> request])

\* ctx.dispatch("gcal-mcp", request): one more call of the dispatch capability
\* recorded in the invocation's log of dispatches.
Dispatch(log, request) == Append(log, [connection |-> "gcal-mcp", request |-> request])

\* Mutant of RequestResult: a falsy body is replaced by None (`body or None`).
RequestResultDropsFalsyBody(resp) ==
  IF resp.success
  THEN GCalResult(TRUE, IF Truthy(resp.response.body) THEN resp.response.body ELSE None, None)
  ELSE LET msg == IF resp.error # None THEN resp.error.message ELSE Str("Request failed")
       IN GCalResult(FALSE, None, msg)

\* _request from the response on: the Result it returns.
RequestResult(resp) ==
  IF resp.success
  THEN GCalResult(TRUE, resp.response.body, None)
  ELSE LET msg == IF resp.error # None THEN resp.error.message ELSE Str("Request failed")
       IN GCalResult(FALSE, None, msg)

\* max(1, min(2500, max_results))
Min(a, b) == IF a < b THEN a ELSE b
Max(a, b) == IF a > b THEN a ELSE b
\* Mutant of ClampMaxResults: the lower limit is not applied.
ClampMaxResultsUpperOnly(max_results) == Min(2500, max_results)
ClampMaxResults(max_results) == Max(1, Min(2500, max_results))

\* Mutant of BoolParam: str(flag) without .lower().
BoolParamNotLowered(flag) == Str(PyStr(flag))

\* str(flag).lower() of a bool
BoolParam(flag) == Str(Lower(PyStr(flag)))

-----------------------------------------------------------------------------
(* The tools.  Each operator is the HttpRequest its tool dispatches; every  *)
(* argument is a Python value.                                             *)

gcal_list_calendars == _request("GET", "/users/me/calendarList", Dict(<<<<"minAccessRole", Str("reader")>>>>), None)

gcal_get_calendar(calendar_id) == _request("GET", "/calendars/" \o calendar_id.s, None, None)

\* Mutant of gcal_create_calendar: description is set without the None test.
gcal_create_calendar_description_unguarded(summary, description, time_zone, location) ==
  LET b0 == <<<<"summary", summary>>>>
      b1 == DictSet(b0, "description", description)
      b2 == SetIf(time_zone # None, b1, "timeZone", time_zone)
      b3 == SetIf(location # None, b2, "location", location)
  IN _request("POST", "/calendars", None, Dict(b3))

gcal_create_calendar(summary, description, time_zone, location) ==
  LET b0 == <<<<"summary", summary>>>>
      b1 == SetIf(description # None, b0, "description", description)
      b2 == SetIf(time_zone # None, b1, "timeZone", time_zone)
      b3 == SetIf(location # None, b2, "location", location)
  IN _request("POST", "/calendars", None, Dict(b3))

gcal_delete_calendar(calendar_id) == _request("DELETE", "/calendars/" \o calendar_id.s, None, None)

gcal_clear_calendar(calendar_id) == _request("POST", "/calendars/" \o calendar_id.s \o "/clear", None, None)

gcal_patch_calendar(calendar_id, patch) == _request("PATCH", "/calendars/" \o calendar_id.s, None, patch)

gcal_update_calendar(calendar_id, calendar) == _request("PUT", "/calendars/" \o calendar_id.s, None, calendar)

gcal_calendarlist_get(calendar_id) == _request("GET", "/users/me/calendarList/" \o calendar_id.s, None, None)

gcal_calendarlist_insert(entry) == _request("POST", "/users/me/calendarList", None, entry)

gcal_calendarlist_delete(calendar_id) == _request("DELETE", "/users/me/calendarList/" \o calendar_id.s, None, None)

gcal_calendarlist_patch(calendar_id, patch) == _request("PATCH", "/users/me/calendarList/" \o calendar_id.s, None, patch)

gcal_calendarlist_update(calendar_id, entry) == _request("PUT", "/users/me/calendarList/" \o calendar_id.s, None, entry)

gcal_create_event(calendar_id, event, send_updates, supports_attachments) ==
  LET p1 == SetIf(send_updates # None, <<>>, "sendUpdates", send_updates)
      p2 == IF supports_attachments # None THEN DictSet(p1, "supportsAttachments", BoolParam(supports_attachments)) ELSE p1
  IN _request("POST", "/calendars/" \o calendar_id.s \o "/events", Dict(p2), event)

gcal_delete_event(calendar_id, event_id, send_updates) ==
  LET p1 == SetIf(send_updates # None, <<>>, "sendUpdates", send_updates)
  IN _request("DELETE", "/calendars/" \o calendar_id.s \o "/events/" \o event_id.s, Dict(p1), None)

gcal_patch_event(calendar_id, event_id, patch, send_updates) ==
  LET p1 == SetIf(send_updates # None, <<>>, "sendUpdates", send_updates)
  IN _request("PATCH", "/calendars/" \o calendar_id.s \o "/events/" \o event_id.s, Dict(p1), patch)

gcal_update_event(calendar_id, event_id, event, send_updates) ==
  LET p1 == SetIf(send_updates # None, <<>>, "sendUpdates", send_updates)
  IN _request("PUT", "/calendars/" \o calendar_id.s \o "/events/" \o event_id.s, Dict(p1), event)

gcal_quick_add_event(calendar_id, text, send_updates) ==
  LET p1 == SetIf(send_updates # None, <<<<"text", text>>>>, "sendUpdates", send_updates)
  IN _request("POST", "/calendars/" \o calendar_id.s \o "/events/quickAdd", Dict(p1), None)

gcal_move_event(source_calendar_id, event_id, destination_calendar_id, send_updates) ==
  LET p1 == SetIf(send_updates # None, <<<<"destination", destination_calendar_id>>>>, "sendUpdates", send_updates)
  IN _request("POST", "/calendars/" \o source_calendar_id.s \o "/events/" \o event_id.s \o "/move", Dict(p1), None)

gcal_import_event(calendar_id, event, supports_attachments) ==
  LET p1 == IF supports_attachments # None THEN DictSet(<<>>, "supportsAttachments", BoolParam(supports_attachments)) ELSE <<>>
  IN _request("POST", "/calendars/" \o calendar_id.s \o "/events/import", Dict(p1), event)

gcal_channels_stop(channel) == _request("POST", "/channels/stop", None, channel)

gcal_events_watch(calendar_id, channel, time_min, time_max, single_events) ==
  LET p1 == SetIf(time_min # None, <<>>, "timeMin", time_min)
      p2 == SetIf(time_max # None, p1, "timeMax", time_max)
      p3 == IF single_events # None THEN DictSet(p2, "singleEvents", BoolParam(single_events)) ELSE p2
  IN _request("POST", "/calendars/" \o calendar_id.s \o "/events/watch", Dict(p3), channel)

gcal_calendarlist_watch(channel) == _request("POST", "/users/me/calendarList/watch", None, channel)

gcal_settings_watch(channel) == _request("POST", "/users/me/settings/watch", None, channel)

\* Mutant of gcal_list_events: orderBy is set whatever single_events is.
gcal_list_events_order_by_unguarded(calendar_id, time_min, time_max, max_results, single_events, order_by) ==
  LET clamped == ClampMaxResults(max_results.n)
      p0 == <<<<"maxResults", Str(IntStr(clamped))>>, <<"singleEvents", BoolParam(single_events)>>>>
      p1 == SetIf(Truthy(time_min), p0, "timeMin", time_min)
      p2 == SetIf(Truthy(time_max), p1, "timeMax", time_max)
      p3 == DictSet(p2, "orderBy", order_by)
  IN _request("GET", "/calendars/" \o calendar_id.s \o "/events", Dict(p3), None)

gcal_list_events(calendar_id, time_min, time_max, max_results, single_events, order_by) ==
  LET clamped == ClampMaxResults(max_results.n)
      p0 == <<<<"maxResults", Str(IntStr(clamped))>>, <<"singleEvents", BoolParam(single_events)>>>>
      p1 == SetIf(Truthy(time_min), p0, "timeMin", time_min)
      p2 == SetIf(Truthy(time_max), p1, "timeMax", time_max)
      p3 == SetIf(Truthy(single_events), p2, "orderBy", order_by)
  IN _request("GET", "/calendars/" \o calendar_id.s \o "/events", Dict(p3), None)

gcal_get_event(calendar_id, event_id) == _request("GET", "/calendars/" \o calendar_id.s \o "/events/" \o event_id.s, None, None)

gcal_search_events(query, calendar_id, time_min, time_max, max_results) ==
  LET clamped == ClampMaxResults(max_results.n)
      p0 == <<<<"q", query>>, <<"maxResults", Str(IntStr(clamped))>>, <<"singleEvents", Str("true")>>, <<"orderBy", Str("startTime")>>>>
      p1 == SetIf(Truthy(time_min), p0, "timeMin", time_min)
      p2 == SetIf(Truthy(time_max), p1, "timeMax", time_max)
  IN _request("GET", "/calendars/" \o calendar_id.s \o "/events", Dict(p2), None)

gcal_get_event_instances(calendar_id, event_id, time_min, time_max, max_results) ==
  LET clamped == ClampMaxResults(max_results.n)
      p0 == <<<<"maxResults", Str(IntStr(clamped))>>>>
      p1 == SetIf(Truthy(time_min), p0, "timeMin", time_min)
      p2 == SetIf(Truthy(time_max), p1, "timeMax", time_max)
  IN _request("GET", "/calendars/" \o calendar_id.s \o "/events/" \o event_id.s \o "/instances", Dict(p2), None)

gcal_get_freebusy(time_min, time_max, calendar_ids, time_zone) ==
  LET ids == IF calendar_ids = None THEN List(<<Str("primary")>>) ELSE calendar_ids
      items == List([i \in 1..Len(ids.l) |-> Dict(<<<<"id", ids.l[i]>>>>)])
      b0 == <<<<"timeMin", time_min>>, <<"timeMax", time_max>>, <<"items", items>>>>
      b1 == SetIf(Truthy(time_zone), b0, "timeZone", time_zone)
  IN _request("POST", "/freeBusy", None, Dict(b1))

gcal_get_settings == _request("GET", "/users/me/settings", None, None)

gcal_get_setting(setting_id) == _request("GET", "/users/me/settings/" \o setting_id.s, None, None)

gcal_get_colors == _request("GET", "/colors", None, None)

-----------------------------------------------------------------------------
(* Inputs *)

\* The most entries a params mapping passed straight to _request has.
MaxParams == 2
\* The invocations that run concurrently.
NumProcs == 3

Procs == 1..NumProcs

CalendarIds == {Str("primary"), Str("work@example.com")}
EventIds == {Str("evt1")}
JsonBodies == {Dict(<<>>), Dict(<<<<"summary", Str("Standup")>>>>)}
OptStrs == {None, Str(""), Str("Europe/Paris")}
SendUpdates == {None, Str(""), Str("all")}
OptBools == {None, Bool(TRUE), Bool(FALSE)}
OptTimes == {None, Str(""), Str("2025-01-01T00:00:00Z")}
MaxResultsInputs == {PyInt(-3), PyInt(0), PyInt(1), PyInt(10), PyInt(100), PyInt(2500), PyInt(2501), PyInt(5000)}
OrderBys == {Str("startTime"), Str("updated")}
CalendarIdLists == {None, List(<<>>), List(<<Str("work@example.com")>>), List(<<Str("primary"), Str("work@example.com")>>)}

ToolCall(tool, a) == [tool |-> tool, a |-> a]

ToolCalls ==
  {ToolCall("gcal_list_calendars", <<>>), ToolCall("gcal_get_settings", <<>>), ToolCall("gcal_get_colors", <<>>)}
  \cup {ToolCall(f, <<c>>) : f \in {"gcal_get_calendar", "gcal_delete_calendar", "gcal_clear_calendar", "gcal_calendarlist_get", "gcal_calendarlist_delete"}, c \in CalendarIds}
  \cup {ToolCall("gcal_get_setting", <<Str("timezone")>>)}
  \cup {ToolCall("gcal_create_calendar", <<Str("Team"), d, z, l>>) : d \in OptStrs, z \in OptStrs, l \in OptStrs}
  \cup {ToolCall(f, <<c, b>>) : f \in {"gcal_patch_calendar", "gcal_update_calendar", "gcal_calendarlist_patch", "gcal_calendarlist_update"}, c \in CalendarIds, b \in JsonBodies}
  \cup {ToolCall(f, <<b>>) : f \in {"gcal_calendarlist_insert", "gcal_channels_stop", "gcal_calendarlist_watch", "gcal_settings_watch"}, b \in JsonBodies}
  \cup {ToolCall("gcal_create_event", <<c, b, su, sa>>) : c \in CalendarIds, b \in JsonBodies, su \in SendUpdates, sa \in OptBools}
  \cup {ToolCall("gcal_delete_event", <<c, e, su>>) : c \in CalendarIds, e \in EventIds, su \in SendUpdates}
  \cup {ToolCall(f, <<c, e, b, su>>) : f \in {"gcal_patch_event", "gcal_update_event"}, c \in CalendarIds, e \in EventIds, b \in JsonBodies, su \in SendUpdates}
  \cup {ToolCall("gcal_quick_add_event", <<c, Str("Lunch at 12"), su>>) : c \in CalendarIds, su \in SendUpdates}
  \cup {ToolCall("gcal_move_event", <<c, e, d, su>>) : c \in CalendarIds, e \in EventIds, d \in CalendarIds, su \in SendUpdates}
  \cup {ToolCall("gcal_import_event", <<c, b, sa>>) : c \in CalendarIds, b \in JsonBodies, sa \in OptBools}
  \cup {ToolCall("gcal_events_watch", <<c, b, t1, t2, se>>) : c \in CalendarIds, b \in JsonBodies, t1 \in OptTimes, t2 \in OptTimes, se \in OptBools}
  \cup {ToolCall("gcal_list_events", <<c, t1, t2, n, Bool(se), ob>>) : c \in CalendarIds, t1 \in OptTimes, t2 \in OptTimes, n \in MaxResultsInputs, se \in BOOLEAN, ob \in OrderBys}
  \cup {ToolCall("gcal_get_event", <<c, e>>) : c \in CalendarIds, e \in EventIds}
  \cup {ToolCall("gcal_search_events", <<Str("team sync"), c, t1, t2, n>>) : c \in CalendarIds, t1 \in OptTimes, t2 \in OptTimes, n \in MaxResultsInputs}
  \cup {ToolCall("gcal_get_event_instances", <<c, e, t1, t2, n>>) : c \in CalendarIds, e \in EventIds, t1 \in OptTimes, t2 \in OptTimes, n \in MaxResultsInputs}
  \cup {ToolCall("gcal_get_freebusy", <<Str("2025-01-01T00:00:00Z"), Str("2025-01-02T00:00:00Z"), ids, z>>) : ids \in CalendarIdLists, z \in OptStrs}

\* The request a tool call dispatches: the framework calls the tool function
\* with the call's arguments.
ToolRequest(c) ==
  LET a == c.a
  IN CASE c.tool = "gcal_list_calendars" -> gcal_list_calendars
       [] c.tool = "gcal_get_calendar" -> gcal_get_calendar(a[1])
       [] c.tool = "gcal_create_calendar" -> gcal_create_calendar(a[1], a[2], a[3], a[4])
       [] c.tool = "gcal_delete_calendar" -> gcal_delete_calendar(a[1])
       [] c.tool = "gcal_clear_calendar" -> gcal_clear_calendar(a[1])
       [] c.tool = "gcal_patch_calendar" -> gcal_patch_calendar(a[1], a[2])
       [] c.tool = "gcal_update_calendar" -> gcal_update_calendar(a[1], a[2])
       [] c.tool = "gcal_calendarlist_get" -> gcal_calendarlist_get(a[1])
       [] c.tool = "gcal_calendarlist_insert" -> gcal_calendarlist_insert(a[1])
       [] c.tool = "gcal_calendarlist_delete" -> gcal_calendarlist_delete(a[1])
       [] c.tool = "gcal_calendarlist_patch" -> gcal_calendarlist_patch(a[1], a[2])
       [] c.tool = "gcal_calendarlist_update" -> gcal_calendarlist_update(a[1], a[2])
       [] c.tool = "gcal_list_events" -> gcal_list_events(a[1], a[2], a[3], a[4], a[5], a[6])
       [] c.tool = "gcal_get_event" -> gcal_get_event(a[1], a[2])
       [] c.tool = "gcal_search_events" -> gcal_search_events(a[1], a[2], a[3], a[4], a[5])
       [] c.tool = "gcal_get_event_instances" -> gcal_get_event_instances(a[1], a[2], a[3], a[4], a[5])
       [] c.tool = "gcal_create_event" -> gcal_create_event(a[1], a[2], a[3], a[4])
       [] c.tool = "gcal_delete_event" -> gcal_delete_event(a[1], a[2], a[3])
       [] c.tool = "gcal_patch_event" -> gcal_patch_event(a[1], a[2], a[3], a[4])
       [] c.tool = "gcal_update_event" -> gcal_update_event(a[1], a[2], a[3], a[4])
       [] c.tool = "gcal_quick_add_event" -> gcal_quick_add_event(a[1], a[2], a[3])
       [] c.tool = "gcal_move_event" -> gcal_move_event(a[1], a[2], a[3], a[4])
       [] c.tool = "gcal_import_event" -> gcal_import_event(a[1], a[2], a[3])
       [] c.tool = "gcal_get_freebusy" -> gcal_get_freebusy(a[1], a[2], a[3], a[4])
       [] c.tool = "gcal_get_settings" -> gcal_get_settings
       [] c.tool = "gcal_get_setting" -> gcal_get_setting(a[1])
       [] c.tool = "gcal_settings_watch" -> gcal_settings_watch(a[1])
       [] c.tool = "gcal_get_colors" -> gcal_get_colors
       [] c.tool = "gcal_channels_stop" -> gcal_channels_stop(a[1])
       [] c.tool = "gcal_events_watch" -> gcal_events_watch(a[1], a[2], a[3], a[4], a[5])
       [] c.tool = "gcal_calendarlist_watch" -> gcal_calendarlist_watch(a[1])
       [] c.tool = "_request" -> _request(a[1].s, a[2].s, a[3], a[4])

\* Calls of the adapter itself, on params mappings no tool builds: keys and
\* values that need quoting, None values, bool and int values.
ParamKeys == {"q", "time zone", "a&b"}
ParamValues == {None, Str(""), Str("x y&z=1"), Bool(TRUE), PyInt(10)}
RECURSIVE DictsOfLen(_)
DictsOfLen(n) ==
  IF n = 0 THEN {<<>>}
  ELSE {Append(d, <<k, v>>) : d \in DictsOfLen(n - 1), k \in ParamKeys, v \in ParamValues}
ParamDicts == {d \in UNION {DictsOfLen(n) : n \in 0..MaxParams} : \A i, j \in 1..Len(d) : d[i][1] = d[j][1] => i = j}
RequestShapes == {<<"GET", "/users/me/settings", None>>, <<"POST", "/calendars/primary/events", Dict(<<<<"summary", Str("Standup")>>>>)>>}
RequestCalls == {ToolCall("_request", <<Str(sh[1]), Str(sh[2]), p, sh[3]>>) : sh \in RequestShapes, p \in {None} \cup {Dict(d) : d \in ParamDicts}}

\* The calls the concurrent invocations draw from.
ConcCalls ==
  {ToolCall("gcal_get_colors", <<>>),
   ToolCall("gcal_create_event", <<Str("primary"), Dict(<<<<"summary", Str("Standup")>>>>), Str("all"), Bool(TRUE)>>),
   ToolCall("gcal_list_events", <<Str("primary"), Str("2025-01-01T00:00:00Z"), None, PyInt(10), Bool(TRUE), Str("startTime")>>)}

\* What the dispatch capability may answer.
HttpResponse(body) == [t |-> "HttpResponse", body |-> body]
HttpError(message) == [t |-> "HttpError", message |-> message]
DispatchResponse(success, resp, error) == [success |-> success, response |-> resp, error |-> error]
Bodies == {None, Str(""), Dict(<<>>), Dict(<<<<"id", Str("evt1")>>>>)}
Messages == {None, Str(""), Str("Not Found")}
Responses ==
  {DispatchResponse(TRUE, HttpResponse(b), None) : b \in Bodies}
  \cup {DispatchResponse(FALSE, None, None)}
  \cup {DispatchResponse(FALSE, None, HttpError(m)) : m \in Messages}
\* The answers the concurrent invocations receive: one success, one failure.
ConcResponses == {DispatchResponse(TRUE, HttpResponse(Dict(<<<<"id", Str("evt1")>>>>)), None), DispatchResponse(FALSE, None, HttpError(Str("Not Found")))}

-----------------------------------------------------------------------------
(* The state machine: an invocation is idle, awaiting its dispatch, resumed *)
(* with the response, or returned.                                         *)

Init ==
  /\ pc = [i \in Procs |-> "idle"]
  /\ call = [i \in Procs |-> None]
  /\ dispatched = [i \in Procs |-> <<>>]
  /\ response = [i \in Procs |-> None]
  /\ result = [i \in Procs |-> None]
  /\ gcal = Connection

\* Mutant of Awaited: the responses land in one slot shared by the invocations.
AwaitedShared(i) == response[CHOOSE j \in Procs : response[j] # None]

\* The response invocation i resumes with: the one its own await received.
Awaited(i) == response[i]

\* A tool is invoked: it builds its request and calls the dispatch
\* capability, where it suspends.
Call(i, c) ==
  /\ pc[i] = "idle"
  /\ pc' = [pc EXCEPT ![i] = "awaiting"]
  /\ call' = [call EXCEPT ![i] = c]
  /\ dispatched' = [dispatched EXCEPT ![i] = Dispatch(dispatched[i], ToolRequest(c))]
  /\ UNCHANGED <<response, result, gcal>>

\* The dispatch capability completes invocation i's request.
Respond(i, r) ==
  /\ pc[i] = "awaiting"
  /\ pc' = [pc EXCEPT ![i] = "resumed"]
  /\ response' = [response EXCEPT ![i] = r]
  /\ UNCHANGED <<call, dispatched, result, gcal>>

\* The invocation resumes and returns its Result.
Return(i) ==
  /\ pc[i] = "resumed"
  /\ pc' = [pc EXCEPT ![i] = "returned"]
  /\ result' = [result EXCEPT ![i] = RequestResult(Awaited(i))]
  /\ UNCHANGED <<call, dispatched, response, gcal>>

\* One invocation at a time, over every tool and every adapter input.
Next ==
  \/ \E c \in ToolCalls : Call(1, c)
  \/ \E c \in RequestCalls : Call(1, c)
  \/ \E r \in Responses : Respond(1, r)
  \/ Return(1)

Spec == Init /\ [][Next]_vars

\* Concurrent invocations, interleaved in any order.
NextConc ==
  \/ \E i \in Procs, c \in ConcCalls : Call(i, c)
  \/ \E i \in Procs, r \in ConcResponses : Respond(i, r)
  \/ \E i \in Procs : Return(i)

SpecConc == Init /\ [][NextConc]_vars

-----------------------------------------------------------------------------
(* Reading a dispatched request back, as the remote service does *)

\* The position of the first occurrence of character c in s, 0 when absent.
IndexOf(s, c) == IF \E i \in 1..Len(s) : SubSeq(s, i, i) = c THEN CHOOSE i \in 1..Len(s) : SubSeq(s, i, i) = c /\ \A j \in 1..(i - 1) : SubSeq(s, j, j) # c ELSE 0

Contains(s, sub) == \E i \in 1..(Len(s) - Len(sub) + 1) : SubSeq(s, i, i + Len(sub) - 1) = sub

RECURSIVE Split(_, _)
Split(s, c) ==
  LET i == IndexOf(s, c)
  IN IF i = 0 THEN <<s>> ELSE <<SubSeq(s, 1, i - 1)>> \o Split(SubSeq(s, i + 1, Len(s)), c)

HexVal(c) == (CHOOSE i \in 1..Len(HexDigits) : SubSeq(HexDigits, i, i) = c) - 1

\* urllib.parse.unquote_plus
RECURSIVE unquote_plus(_)
unquote_plus(s) ==
  IF s = "" THEN ""
  ELSE LET c == SubSeq(s, 1, 1)
       IN IF c = "%" THEN Chr(16 * HexVal(SubSeq(s, 2, 2)) + HexVal(SubSeq(s, 3, 3))) \o unquote_plus(SubSeq(s, 4, Len(s)))
          ELSE (IF c = "+" THEN " " ELSE c) \o unquote_plus(SubSeq(s, 2, Len(s)))

\* The path and the query string of a request path.
PathPart(p) == IF IndexOf(p, "?") = 0 THEN p ELSE SubSeq(p, 1, IndexOf(p, "?") - 1)
QueryPart(p) == IF IndexOf(p, "?") = 0 THEN "" ELSE SubSeq(p, IndexOf(p, "?") + 1, Len(p))

\* urllib.parse.parse_qsl with keep_blank_values: the <<key, value>> pairs of a query string.
parse_qsl(q) ==
  IF q = "" THEN <<>>
  ELSE LET parts == Split(q, "&")
       IN [i \in 1..Len(parts) |-> LET e == IndexOf(parts[i], "=") IN <<unquote_plus(SubSeq(parts[i], 1, e - 1)), unquote_plus(SubSeq(parts[i], e + 1, Len(parts[i])))>>]

\* The value of key k in a sequence of pairs.
Lookup(d, k) == d[CHOOSE i \in 1..Len(d) : d[i][1] = k][2]

\* The request invocation i dispatched, and its decoded query parameters.
Sent(i) == dispatched[i][1].request
SentQuery(i) == parse_qsl(QueryPart(Sent(i).path))

Started(i) == pc[i] # "idle"
Returned(i) == pc[i] = "returned"
IsTool(i, tool) == Started(i) /\ call[i].tool = tool
HasKey(d, k) == \E n \in 1..Len(d) : d[n][1] = k
NoDuplicateKeys(d) == \A m, n \in 1..Len(d) : d[m][1] = d[n][1] => m = n

-----------------------------------------------------------------------------
(* Claims *)

\* A failed response carries no message when its error object is absent, or
\* present with a message that is None or empty.
NoMessage(resp) == resp.error = None \/ resp.error.message = None \/ resp.error.message = Str("")

\* C1: after a failure response the Result has success=false and error equal
\* to the message of the response's error object, or to "Request failed" when
\* no message is present (error object absent, or present without a message).
C1_FailureErrorIsMessageOrGeneric ==
  \A i \in Procs : (Returned(i) /\ ~response[i].success) =>
    /\ result[i].success = FALSE
    /\ result[i].error = (IF NoMessage(response[i]) THEN Str("Request failed") ELSE response[i].error.message)

\* C2: after a success response the Result has success=true, no error, and
\* data equal to the response body unchanged, whatever the body is.
C2_SuccessDataVerbatim ==
  \A i \in Procs : (Returned(i) /\ response[i].success) =>
    result[i] = [success |-> TRUE, data |-> response[i].response.body, error |-> None]

C2_Witness ==
  /\ Returned(1) /\ response[1].success
  /\ response[1].response.body = Dict(<<<<"id", Str("evt1")>>>>)
  /\ result[1].data = Dict(<<<<"id", Str("evt1")>>>>)

\* C3: every returned Result is well formed: success=true implies error
\* absent; success=false implies data absent and error a non-empty message.
C3_ResultInvariant ==
  \A i \in Procs : Returned(i) =>
    /\ result[i].success => result[i].error = None
    /\ ~result[i].success => (result[i].data = None /\ result[i].error.t = "str" /\ result[i].error.s # "")

\* C4: an invocation dispatches exactly once, under the connection name
\* "gcal-mcp", never again after the response (success or failure), and it
\* has a Result only after its dispatch was made and answered.
C4_DispatchExactlyOnce ==
  \A i \in Procs :
    /\ pc[i] = "idle" => (dispatched[i] = <<>> /\ result[i] = None)
    /\ Started(i) => (Len(dispatched[i]) = 1 /\ dispatched[i][1].connection = "gcal-mcp")
    /\ result[i] # None => (Returned(i) /\ response[i] # None /\ Len(dispatched[i]) = 1)
    /\ Returned(i) => result[i] # None

C4_Witness == Returned(1) /\ ~response[1].success /\ Len(dispatched[1]) = 1 /\ call[1].tool = "gcal_create_event"

\* C5: the dispatched path of _request(method, path, params, body) is the
\* input path alone when params is absent, empty or all-None, and otherwise
\* the input path, "?", and a query string that decodes to exactly the
\* entries of params whose value is not None, in order; the key of a None
\* entry never appears in it.
LiveEntries(params) == IF params = None THEN <<>> ELSE SelectSeq(params.d, LAMBDA e : e[2] # None)
C5_QueryIsNonNullEntries ==
  \A i \in Procs : IsTool(i, "_request") =>
    LET path == call[i].a[2].s
        params == call[i].a[3]
        live == LiveEntries(params)
        sent == Sent(i).path
    IN /\ live = <<>> => sent = path
       /\ live # <<>> =>
            /\ SubSeq(sent, 1, Len(path) + 1) = path \o "?"
            /\ parse_qsl(SubSeq(sent, Len(path) + 2, Len(sent))) = [n \in 1..Len(live) |-> <<live[n][1], PyStr(live[n][2])>>]
       /\ params # None => \A n \in 1..Len(params.d) :
            (params.d[n][2] = None) => ~HasKey(parse_qsl(QueryPart(sent)), params.d[n][1])

C5_Witness ==
  /\ IsTool(1, "_request")
  /\ call[1].a[3] = Dict(<<<<"a&b", None>>, <<"time zone", Str("x y&z=1")>>>>)
  /\ Sent(1).path = "/users/me/settings?time+zone=x+y%26z%3D1"

\* C6: gcal_list_events, gcal_search_events and gcal_get_event_instances send
\* maxResults as the decimal string of max_results clamped to [1, 2500].
MaxResultsArg(c) == IF c.tool = "gcal_list_events" THEN c.a[4].n ELSE c.a[5].n
C6_MaxResultsClamped ==
  \A i \in Procs : (IsTool(i, "gcal_list_events") \/ IsTool(i, "gcal_search_events") \/ IsTool(i, "gcal_get_event_instances")) =>
    LET n == MaxResultsArg(call[i])
        q == SentQuery(i)
    IN /\ HasKey(q, "maxResults")
       /\ n < 1 => Lookup(q, "maxResults") = "1"
       /\ n > 2500 => Lookup(q, "maxResults") = "2500"
       /\ (1 <= n /\ n <= 2500) => Lookup(q, "maxResults") = IntStr(n)

C6_Witness ==
  /\ IsTool(1, "gcal_get_event_instances")
  /\ call[1].a[5] = PyInt(0)
  /\ Lookup(SentQuery(1), "maxResults") = "1"

\* The optional parameters of each tool (default None): the argument's
\* position, where it is sent, and the key or field it is sent as.
OptionalParams(tool) ==
  CASE tool = "gcal_create_calendar" -> {<<2, "body", "description">>, <<3, "body", "timeZone">>, <<4, "body", "location">>}
    [] tool = "gcal_create_event" -> {<<3, "query", "sendUpdates">>, <<4, "query", "supportsAttachments">>}
    [] tool = "gcal_delete_event" -> {<<3, "query", "sendUpdates">>}
    [] tool = "gcal_patch_event" -> {<<4, "query", "sendUpdates">>}
    [] tool = "gcal_update_event" -> {<<4, "query", "sendUpdates">>}
    [] tool = "gcal_quick_add_event" -> {<<3, "query", "sendUpdates">>}
    [] tool = "gcal_move_event" -> {<<4, "query", "sendUpdates">>}
    [] tool = "gcal_import_event" -> {<<3, "query", "supportsAttachments">>}
    [] tool = "gcal_events_watch" -> {<<3, "query", "timeMin">>, <<4, "query", "timeMax">>, <<5, "query", "singleEvents">>}
    [] tool = "gcal_list_events" -> {<<2, "query", "timeMin">>, <<3, "query", "timeMax">>}
    [] tool = "gcal_search_events" -> {<<3, "query", "timeMin">>, <<4, "query", "timeMax">>}
    [] tool = "gcal_get_event_instances" -> {<<3, "query", "timeMin">>, <<4, "query", "timeMax">>}
    [] tool = "gcal_get_freebusy" -> {<<3, "body", "items">>, <<4, "body", "timeZone">>}
    [] OTHER -> {}

\* The optional parameter o of invocation i's call left no trace in the
\* dispatched request: no key in the query string (nor its name anywhere in
\* the path), no field in the body.
Omitted(i, o) ==
  IF o[2] = "query"
  THEN ~HasKey(SentQuery(i), o[3]) /\ ~Contains(Sent(i).path, o[3])
  ELSE ~HasKey(Sent(i).body.d, o[3])

\* C7 as stated: every optional parameter that is None contributes no key to
\* the query string and no field to the body, for every tool.
C7_AbsentOptionalOmitted ==
  \A i \in Procs : (Started(i) /\ call[i].tool # "_request") =>
    \A o \in OptionalParams(call[i].tool) : call[i].a[o[1]] = None => Omitted(i, o)

\* C7 amended: the same for every optional parameter but calendar_ids of
\* gcal_get_freebusy, which when None is sent as items = [{"id": "primary"}].
C7_AbsentOptionalOmittedButCalendarIds ==
  \A i \in Procs : (Started(i) /\ call[i].tool # "_request") =>
    \A o \in OptionalParams(call[i].tool) : call[i].a[o[1]] = None =>
      IF call[i].tool = "gcal_get_freebusy" /\ o[1] = 3
      THEN Lookup(Sent(i).body.d, "items") = List(<<Dict(<<<<"id", Str("primary")>>>>)>>)
      ELSE Omitted(i, o)

C7_Witness ==
  /\ IsTool(1, "gcal_create_event")
  /\ call[1].a[3] = None /\ call[1].a[4] = Bool(FALSE)
  /\ Sent(1).path = "/calendars/primary/events?supportsAttachments=false"

\* C8: a boolean query flag reaches the dispatch capability as "true" or
\* "false": singleEvents of gcal_list_events and gcal_events_watch,
\* supportsAttachments of gcal_create_event and gcal_import_event.
BoolFlags(tool) ==
  CASE tool = "gcal_list_events" -> {<<5, "singleEvents">>}
    [] tool = "gcal_events_watch" -> {<<5, "singleEvents">>}
    [] tool = "gcal_create_event" -> {<<4, "supportsAttachments">>}
    [] tool = "gcal_import_event" -> {<<3, "supportsAttachments">>}
    [] OTHER -> {}
C8_BooleanLowercase ==
  \A i \in Procs : (Started(i) /\ call[i].tool # "_request") =>
    \A f \in BoolFlags(call[i].tool) : call[i].a[f[1]] # None =>
      /\ HasKey(SentQuery(i), f[2])
      /\ Lookup(SentQuery(i), f[2]) = (IF call[i].a[f[1]].b THEN "true" ELSE "false")
      /\ Contains(Sent(i).path, f[2] \o (IF call[i].a[f[1]].b THEN "=true" ELSE "=false"))

C8_Witness ==
  /\ IsTool(1, "gcal_import_event")
  /\ call[1].a[3] = Bool(TRUE)
  /\ Sent(1).path = "/calendars/primary/events/import?supportsAttachments=true"

\* C9: gcal_list_events dispatches GET /calendars/{calendar_id}/events with
\* exactly maxResults, singleEvents, timeMin iff time_min is non-empty,
\* timeMax iff time_max is non-empty, orderBy iff single_events; and the
\* scenario of the specification yields exactly its four parameters.
C9_ListEventsParams ==
  \A i \in Procs : IsTool(i, "gcal_list_events") =>
    LET a == call[i].a
        q == SentQuery(i)
        clamped == IF a[4].n < 1 THEN 1 ELSE IF a[4].n > 2500 THEN 2500 ELSE a[4].n
        hasMin == a[2] # None /\ a[2] # Str("")
        hasMax == a[3] # None /\ a[3] # Str("")
    IN /\ Sent(i).method = "GET"
       /\ Sent(i).body = None
       /\ PathPart(Sent(i).path) = "/calendars/" \o a[1].s \o "/events"
       /\ NoDuplicateKeys(q)
       /\ Keys(q) = {"maxResults", "singleEvents"} \cup (IF hasMin THEN {"timeMin"} ELSE {}) \cup (IF hasMax THEN {"timeMax"} ELSE {}) \cup (IF a[5].b THEN {"orderBy"} ELSE {})
       /\ Lookup(q, "maxResults") = IntStr(clamped)
       /\ Lookup(q, "singleEvents") = (IF a[5].b THEN "true" ELSE "false")
       /\ hasMin => Lookup(q, "timeMin") = a[2].s
       /\ hasMax => Lookup(q, "timeMax") = a[3].s
       /\ a[5].b => Lookup(q, "orderBy") = a[6].s
       /\ a = <<Str("primary"), Str("2025-01-01T00:00:00Z"), None, PyInt(10), Bool(TRUE), Str("startTime")>> =>
            q = <<<<"maxResults", "10">>, <<"singleEvents", "true">>, <<"timeMin", "2025-01-01T00:00:00Z">>, <<"orderBy", "startTime">>>>

C9_Witness ==
  /\ IsTool(1, "gcal_list_events")
  /\ call[1].a = <<Str("primary"), Str("2025-01-01T00:00:00Z"), None, PyInt(10), Bool(TRUE), Str("startTime")>>
  /\ Sent(1).path = "/calendars/primary/events?maxResults=10&singleEvents=true&timeMin=2025-01-01T00%3A00%3A00Z&orderBy=startTime"

\* C10: under any interleaving of concurrent invocations, each invocation's
\* dispatched request is the one its own call builds, its Result is the one
\* its own response yields, and the connection configuration never changes.
C10_InvocationsIndependent ==
  /\ gcal = Connection
  /\ \A i \in Procs :
       /\ Started(i) => dispatched[i] = <<[connection |-> "gcal-mcp", request |-> ToolRequest(call[i])]>>
       /\ Returned(i) => result[i] = RequestResult(response[i])
  /\ \A i, j \in Procs :
       /\ (Started(i) /\ Started(j) /\ call[i] = call[j]) => dispatched[i] = dispatched[j]
       /\ (Returned(i) /\ Returned(j) /\ response[i] = response[j]) => result[i] = result[j]

C10_Witness ==
  /\ Returned(1) /\ Returned(2) /\ pc[3] = "awaiting"
  /\ call[1] # call[2] /\ call[2] # call[3]
  /\ response[1].success /\ ~response[2].success
  /\ result[1].success /\ ~result[2].success

====
